---- MODULE Spec2Model ----
(***************************************************************************)
(* Offline synchronisation and conflict resolution of vyapar-server:       *)
(* OfflineSyncService (src/src/services/otpService.ts, from line 136) and  *)
(* the entity tables it writes (bills, customers, products, payments).     *)
(*                                                                         *)
(* The offline_sync table is the sequence `queue` (a row's id is its       *)
(* position, rows are never deleted, so position order is createdAt        *)
(* order).  The entity tables are `store`.  A sync pass is a process with  *)
(* a program counter: listing the pending rows, one step per operation of  *)
(* the for-loop, and the final assignment of result.success.               *)
(***************************************************************************)
EXTENDS Integers, Sequences, FiniteSets, TLC

\* ---------------------------------------------------------------- bounds
MaxOps == 2       \* rows the offline_sync table can hold
MaxTs  == 1       \* timestamps are 0..MaxTs

\* ------------------------------------------------------------- constants
NoTs == -1        \* a missing updatedAt (null column / key absent in data)
NaN  == -2        \* the time value of `new Date('')` (Invalid Date)

Ts        == 0..MaxTs
TsOrNone  == Ts \cup {NoTs}
RecIds    == {"r1"}
Tables    == {"bills", "customers", "products", "payments"}
PassIds   == {1}

\* A row of an entity table; NoRec is "no such row" (also `undefined`).
NoRec == [present |-> FALSE, updatedAt |-> NoTs, val |-> "none"]
Row(ts, v) == [present |-> TRUE, updatedAt |-> ts, val |-> v]

\* A payload (operation.data / mergedData); NoData is `undefined`.
NoData == [id |-> "none", updatedAt |-> NoTs, val |-> "none"]
Data(id, ts, v) == [id |-> id, updatedAt |-> ts, val |-> v]

VARIABLES queue, store, pass, dbUp

vars == <<queue, store, pass, dbUp>>

\* --------------------------------------------------------- Date semantics
\* Faulty variant: a missing timestamp is read as the epoch.
DateOf_epoch(ts) == IF ts = NoTs THEN 0 ELSE ts

\* new Date(x || ''): a missing timestamp gives Invalid Date, whose time
\* value is NaN.
DateOf(ts) == IF ts = NoTs THEN NaN ELSE ts

\* Faulty variants of the comparison: the operands swapped; >= for >.
DateGt_swapped(a, b) == a # NaN /\ b # NaN /\ b > a

DateGt_orEqual(a, b) == a # NaN /\ b # NaN /\ a >= b

\* Date > Date compares the time values; any comparison with NaN is false.
DateGt(a, b) == a # NaN /\ b # NaN /\ a > b

\* ------------------------------------------------------- entity handlers
SyncRes(ok, cf, cd, err, st) ==
    [success |-> ok, conflict |-> cf, conflictData |-> cd, error |-> err,
     store |-> st]

\* db.insert(table).values(data): the primary key is data.id; a second row
\* with the same key raises; a missing updatedAt takes defaultNow().
InsertRow(st, t, data, now) ==
    [st EXCEPT ![t][data.id] =
        Row(IF data.updatedAt = NoTs THEN now ELSE data.updatedAt, data.val)]

\* Faulty variant: the update is not executed.
UpdateRow_skipped(st, t, r, data) == st

\* db.update(table).set(data).where(id = recordId): only the columns that
\* data carries are assigned.
UpdateRow(st, t, r, data) ==
    [st EXCEPT ![t][r] =
        Row(IF data.updatedAt = NoTs THEN st[t][r].updatedAt
                                     ELSE data.updatedAt, data.val)]

\* Faulty variant: the delete is not executed.
DeleteRow_skipped(st, t, r) == st

\* db.delete(table).where(id = recordId)
DeleteRow(st, t, r) == [st EXCEPT ![t][r] = NoRec]

\* Faulty variant: a create whose key is taken is reported as a conflict
\* with the row that has the key.
syncEntity_createConflicts(t, notFound, st, op, now) ==
    LET existing == st[t][op.recordId]
        serverUpdatedAt == DateOf(existing.updatedAt)
        clientUpdatedAt == DateOf(op.data.updatedAt)
    IN CASE op.operation = "create" ->
              IF st[t][op.data.id].present
                THEN SyncRes(FALSE, TRUE, st[t][op.data.id], "", st)
                ELSE SyncRes(TRUE, FALSE, NoRec, "", InsertRow(st, t, op.data, now))
         [] op.operation = "update" ->
              IF ~existing.present
                THEN SyncRes(FALSE, FALSE, NoRec, notFound, st)
              ELSE IF DateGt(serverUpdatedAt, clientUpdatedAt)
                THEN SyncRes(FALSE, TRUE, existing, "", st)
              ELSE SyncRes(TRUE, FALSE, NoRec, "",
                           UpdateRow(st, t, op.recordId, op.data))
         [] op.operation = "delete" ->
              SyncRes(TRUE, FALSE, NoRec, "", DeleteRow(st, t, op.recordId))
         [] OTHER -> SyncRes(FALSE, FALSE, NoRec, "Invalid operation", st)

\* Faulty variant: a create overwrites the row that has its key.
syncEntity_upsert(t, notFound, st, op, now) ==
    LET existing == st[t][op.recordId]
        serverUpdatedAt == DateOf(existing.updatedAt)
        clientUpdatedAt == DateOf(op.data.updatedAt)
    IN CASE op.operation = "create" ->
              SyncRes(TRUE, FALSE, NoRec, "", InsertRow(st, t, op.data, now))
         [] op.operation = "update" ->
              IF ~existing.present
                THEN SyncRes(FALSE, FALSE, NoRec, notFound, st)
              ELSE IF DateGt(serverUpdatedAt, clientUpdatedAt)
                THEN SyncRes(FALSE, TRUE, existing, "", st)
              ELSE SyncRes(TRUE, FALSE, NoRec, "",
                           UpdateRow(st, t, op.recordId, op.data))
         [] op.operation = "delete" ->
              SyncRes(TRUE, FALSE, NoRec, "", DeleteRow(st, t, op.recordId))
         [] OTHER -> SyncRes(FALSE, FALSE, NoRec, "Invalid operation", st)

\* The body shared by syncBill, syncCustomer, syncProduct and syncPayment
\* (the four are the same text over four tables).
syncEntity(t, notFound, st, op, now) ==
    LET existing == st[t][op.recordId]
        serverUpdatedAt == DateOf(existing.updatedAt)
        clientUpdatedAt == DateOf(op.data.updatedAt)
    IN CASE op.operation = "create" ->
              IF st[t][op.data.id].present
                THEN SyncRes(FALSE, FALSE, NoRec, "duplicate key", st)
                ELSE SyncRes(TRUE, FALSE, NoRec, "", InsertRow(st, t, op.data, now))
         [] op.operation = "update" ->
              IF ~existing.present
                THEN SyncRes(FALSE, FALSE, NoRec, notFound, st)
              ELSE IF DateGt(serverUpdatedAt, clientUpdatedAt)
                THEN SyncRes(FALSE, TRUE, existing, "", st)
              ELSE SyncRes(TRUE, FALSE, NoRec, "",
                           UpdateRow(st, t, op.recordId, op.data))
         [] op.operation = "delete" ->
              SyncRes(TRUE, FALSE, NoRec, "", DeleteRow(st, t, op.recordId))
         [] OTHER -> SyncRes(FALSE, FALSE, NoRec, "Invalid operation", st)

syncBill(st, op, now)     == syncEntity("bills", "Bill not found", st, op, now)
syncCustomer(st, op, now) == syncEntity("customers", "Customer not found", st, op, now)
syncProduct(st, op, now)  == syncEntity("products", "Product not found", st, op, now)
syncPayment(st, op, now)  == syncEntity("payments", "Payment not found", st, op, now)

\* Faulty variant: a table without a handler is synced as bills.
syncSingleOperation_defaultBills(st, op, now) ==
    CASE op.tableName = "customers" -> syncCustomer(st, op, now)
      [] op.tableName = "products"  -> syncProduct(st, op, now)
      [] op.tableName = "payments"  -> syncPayment(st, op, now)
      [] OTHER -> syncBill(st, op, now)

\* syncSingleOperation: the switch over tableName; its default case.
syncSingleOperation(st, op, now) ==
    CASE op.tableName = "bills"     -> syncBill(st, op, now)
      [] op.tableName = "customers" -> syncCustomer(st, op, now)
      [] op.tableName = "products"  -> syncProduct(st, op, now)
      [] op.tableName = "payments"  -> syncPayment(st, op, now)
      [] OTHER -> SyncRes(FALSE, FALSE, NoRec, "Unsupported table", st)

\* ------------------------------------------------------------ queue store
\* Faulty variant: the snapshot is never stored.
updateSyncStatus_noSnapshot(q, id, status, conflictData) ==
    [q EXCEPT ![id].status = status]

\* updateSyncStatus: status is always written, conflictData only when the
\* argument is truthy.
updateSyncStatus(q, id, status, conflictData) ==
    [q EXCEPT ![id] =
        [@ EXCEPT !.status = status,
                  !.conflictData = IF conflictData.present THEN conflictData
                                                            ELSE @]]

\* Faulty variant: the status filter is missing.
getPendingSyncOperations_anyStatus(q, userId, companyId) ==
    SelectSeq([i \in 1..Len(q) |-> i],
              LAMBDA i : /\ q[i].userId = userId
                         /\ companyId # "" => q[i].companyId = companyId)

\* Faulty variant: failed rows are listed again.
getPendingSyncOperations_withFailed(q, userId, companyId) ==
    SelectSeq([i \in 1..Len(q) |-> i],
              LAMBDA i : /\ q[i].userId = userId
                         /\ companyId # "" => q[i].companyId = companyId
                         /\ q[i].status \in {"pending", "failed"})

\* getPendingSyncOperations: the ids of the pending rows of userId, ordered
\* by createdAt (the order of the queue).  `if (companyId)` adds the company
\* to the filter only when the argument is truthy: an empty string lists
\* the pending rows of every company of the user.
getPendingSyncOperations(q, userId, companyId) ==
    SelectSeq([i \in 1..Len(q) |-> i],
              LAMBDA i : /\ q[i].userId = userId
                         /\ companyId # "" => q[i].companyId = companyId
                         /\ q[i].status = "pending")

\* ------------------------------------------------------------------ state
NoResult == [success |-> TRUE, synced |-> 0, failed |-> 0, conflicts |-> 0,
             errors |-> <<>>]

IdlePass == [pc |-> "idle", ops |-> <<>>, idx |-> 1, result |-> NoResult]

Init ==
    /\ queue = <<>>
    /\ store = [t \in Tables |-> [r \in RecIds |-> NoRec]]
    /\ pass = [p \in PassIds |-> IdlePass]
    /\ dbUp = TRUE

\* ---------------------------------------------------------------- actions
\* Faulty variant: the queue is keyed by (tableName, recordId) and a new
\* operation replaces the one queued for the same row.
Enqueue_replaces(userId, companyId, tableName, recordId, operation, data) ==
    LET new == [userId |-> userId, companyId |-> companyId,
                tableName |-> tableName, recordId |-> recordId,
                operation |-> operation, data |-> data,
                status |-> "pending", conflictData |-> NoRec]
        same == {i \in 1..Len(queue) : /\ queue[i].tableName = tableName
                                       /\ queue[i].recordId = recordId}
    IN /\ Len(queue) < MaxOps
       /\ queue' = IF same = {} THEN Append(queue, new)
                   ELSE [i \in 1..Len(queue) |->
                           IF i \in same THEN new ELSE queue[i]]
       /\ UNCHANGED <<store, pass, dbUp>>

\* addSyncOperation (POST /operations)
Enqueue(userId, companyId, tableName, recordId, operation, data) ==
    /\ Len(queue) < MaxOps
    /\ queue' = Append(queue,
          [userId |-> userId, companyId |-> companyId,
           tableName |-> tableName, recordId |-> recordId,
           operation |-> operation, data |-> data,
           status |-> "pending", conflictData |-> NoRec])
    /\ UNCHANGED <<store, pass, dbUp>>

\* syncOperations, lines 227-236: the result is zeroed and the pending rows
\* of (userId, companyId) are listed.
StartSync(p, userId, companyId) ==
    /\ pass[p].pc = "idle"
    /\ pass' = [pass EXCEPT ![p] =
          [pc |-> "loop",
           ops |-> getPendingSyncOperations(queue, userId, companyId),
           idx |-> 1, result |-> NoResult]]
    /\ UNCHANGED <<queue, store, dbUp>>

\* Faulty variant: a conflict is not counted.
Count_noConflicts(result, r) ==
    IF r.success THEN [result EXCEPT !.synced = @ + 1]
    ELSE IF r.conflict THEN result
    ELSE [result EXCEPT !.failed = @ + 1, !.errors = Append(@, r.error)]

\* Faulty variant: a conflict leaves an error entry too.
Count_conflictError(result, r) ==
    IF r.success THEN [result EXCEPT !.synced = @ + 1]
    ELSE IF r.conflict THEN [result EXCEPT !.conflicts = @ + 1,
                                           !.errors = Append(@, "conflict")]
    ELSE [result EXCEPT !.failed = @ + 1, !.errors = Append(@, r.error)]

\* Faulty variant: a failure is counted without its error entry.
Count_noErrorEntry(result, r) ==
    IF r.success THEN [result EXCEPT !.synced = @ + 1]
    ELSE IF r.conflict THEN [result EXCEPT !.conflicts = @ + 1]
    ELSE [result EXCEPT !.failed = @ + 1]

\* One outcome of the for-loop body applied to the counters of the result.
Count(result, r) ==
    IF r.success THEN [result EXCEPT !.synced = @ + 1]
    ELSE IF r.conflict THEN [result EXCEPT !.conflicts = @ + 1]
    ELSE [result EXCEPT !.failed = @ + 1, !.errors = Append(@, r.error)]

\* Faulty variant: a success is not recorded.
StatusOf_successPending(r) ==
    IF r.success THEN "pending" ELSE IF r.conflict THEN "conflict" ELSE "failed"

\* The status the for-loop body writes for an outcome.
StatusOf(r) ==
    IF r.success THEN "synced" ELSE IF r.conflict THEN "conflict" ELSE "failed"

\* The values defaultNow() can take where the operation reads the clock (an
\* insert whose data carries no updatedAt); one value where it does not.
Clock(op) ==
    IF op.operation = "create" /\ op.data.updatedAt = NoTs THEN Ts ELSE {0}

\* Faulty variant: the loop is left at the first operation that does not
\* succeed.
SyncStep_stopsAtFailure(p) ==
    /\ pass[p].pc = "loop"
    /\ pass[p].idx <= Len(pass[p].ops)
    /\ LET id == pass[p].ops[pass[p].idx]
           operation == queue[id]
       IN \E now \in Clock(operation) :
            LET syncSuccess == syncSingleOperation(store, operation, now)
            IN /\ store' = syncSuccess.store
               /\ queue' = updateSyncStatus(queue, id, StatusOf(syncSuccess),
                                            syncSuccess.conflictData)
               /\ pass' = [pass EXCEPT
                     ![p].idx = IF syncSuccess.success THEN @ + 1
                                ELSE Len(pass[p].ops) + 1,
                     ![p].result = Count(@, syncSuccess)]
               /\ UNCHANGED dbUp

\* syncOperations, lines 238-258: one iteration of the for-loop.  The catch
\* of lines 253-257 is unreachable: syncSingleOperation catches whatever
\* its handlers raise and updateSyncStatus catches its own failures.
SyncStep(p) ==
    /\ pass[p].pc = "loop"
    /\ pass[p].idx <= Len(pass[p].ops)
    /\ LET id == pass[p].ops[pass[p].idx]
           operation == queue[id]
       IN \E now \in Clock(operation) :
            LET syncSuccess == syncSingleOperation(store, operation, now)
            IN /\ store' = syncSuccess.store
               /\ queue' = updateSyncStatus(queue, id, StatusOf(syncSuccess),
                                            syncSuccess.conflictData)
               /\ pass' = [pass EXCEPT ![p].idx = @ + 1,
                                       ![p].result = Count(@, syncSuccess)]
               /\ UNCHANGED dbUp

\* Faulty variant: a conflict makes the pass unsuccessful.
successOf_noConflicts(result) == result.failed = 0 /\ result.conflicts = 0

\* syncOperations, line 260: result.success = result.failed === 0
successOf(result) == result.failed = 0

\* syncOperations, lines 260-266: result.success is assigned and the result
\* returned.
FinishSync(p) ==
    /\ pass[p].pc = "loop"
    /\ pass[p].idx > Len(pass[p].ops)
    /\ pass' = [pass EXCEPT ![p].pc = "done",
                            ![p].result.success = successOf(pass[p].result)]
    /\ UNCHANGED <<queue, store, dbUp>>

\* POST /sync replies with the result; the locals of the pass are gone.
Reply(p) ==
    /\ pass[p].pc = "done"
    /\ pass' = [pass EXCEPT ![p] = IdlePass]
    /\ UNCHANGED <<queue, store, dbUp>>

\* Faulty variant: the status of the row is not tested.
resolveReturn_anyStatus(q, syncId, resolution, mergedData) ==
    /\ syncId \in 1..Len(q)
    /\ ~(resolution = "merge" /\ mergedData = NoData)

\* The value resolveConflict returns.
resolveReturn(q, syncId, resolution, mergedData) ==
    /\ syncId \in 1..Len(q)
    /\ q[syncId].status = "conflict"
    /\ ~(resolution = "merge" /\ mergedData = NoData)

\* Faulty variant: use_server retries the operation as use_client does.
Resolve_serverRetries(syncId, resolution, mergedData) ==
    IF ~resolveReturn(queue, syncId, resolution, mergedData)
      THEN UNCHANGED <<queue, store, pass, dbUp>>
    ELSE LET syncRecord == queue[syncId]
             operation == [syncRecord EXCEPT !.status = "pending"]
             mergeOperation == [syncRecord EXCEPT !.operation = "update",
                                                  !.data = mergedData,
                                                  !.status = "pending"]
             rerun == IF resolution = "merge" THEN mergeOperation
                                              ELSE operation
         IN \E now \in Clock(rerun) :
              LET result == syncSingleOperation(store, rerun, now)
              IN /\ store' = result.store
                 /\ queue' = updateSyncStatus(queue, syncId,
                       IF result.success THEN "synced" ELSE "failed", NoRec)
                 /\ UNCHANGED <<pass, dbUp>>

\* Faulty variant: merge without mergedData falls back to use_server.
Resolve_mergeDefaults(syncId, resolution, mergedData) ==
    IF ~(syncId \in 1..Len(queue) /\ queue[syncId].status = "conflict")
      THEN UNCHANGED <<queue, store, pass, dbUp>>
    ELSE IF resolution = "use_server"
              \/ (resolution = "merge" /\ mergedData = NoData)
      THEN /\ queue' = updateSyncStatus(queue, syncId, "synced", NoRec)
           /\ UNCHANGED <<store, pass, dbUp>>
    ELSE LET syncRecord == queue[syncId]
             operation == [syncRecord EXCEPT !.status = "pending"]
             mergeOperation == [syncRecord EXCEPT !.operation = "update",
                                                  !.data = mergedData,
                                                  !.status = "pending"]
             rerun == IF resolution = "use_client" THEN operation
                                                   ELSE mergeOperation
         IN \E now \in Clock(rerun) :
              LET result == syncSingleOperation(store, rerun, now)
              IN /\ store' = result.store
                 /\ queue' = updateSyncStatus(queue, syncId,
                       IF result.success THEN "synced" ELSE "failed", NoRec)
                 /\ UNCHANGED <<pass, dbUp>>

\* resolveConflict (POST /conflicts/:syncId/resolve)
Resolve(syncId, resolution, mergedData) ==
    IF ~resolveReturn(queue, syncId, resolution, mergedData)
      THEN UNCHANGED <<queue, store, pass, dbUp>>
    ELSE IF resolution = "use_server"
      THEN /\ queue' = updateSyncStatus(queue, syncId, "synced", NoRec)
           /\ UNCHANGED <<store, pass, dbUp>>
    ELSE LET syncRecord == queue[syncId]
             operation == [syncRecord EXCEPT !.status = "pending"]
             mergeOperation == [syncRecord EXCEPT !.operation = "update",
                                                  !.data = mergedData,
                                                  !.status = "pending"]
             rerun == IF resolution = "use_client" THEN operation
                                                   ELSE mergeOperation
         IN \E now \in Clock(rerun) :
              LET result == syncSingleOperation(store, rerun, now)
              IN /\ store' = result.store
                 /\ queue' = updateSyncStatus(queue, syncId,
                       IF result.success THEN "synced" ELSE "failed", NoRec)
                 /\ UNCHANGED <<pass, dbUp>>

\* The CRUD routes write the entity tables directly.
\* POST (insert of the request body; updatedAt may be null or defaultNow)
ServerInsert(t, r, ts) ==
    /\ ~store[t][r].present
    /\ store' = [store EXCEPT ![t][r] = Row(ts, "srv")]
    /\ UNCHANGED <<queue, pass, dbUp>>

\* PUT (update with updatedAt: new Date())
ServerUpdate(t, r, now) ==
    /\ store[t][r].present
    /\ store' = [store EXCEPT ![t][r] = Row(now, "srv")]
    /\ UNCHANGED <<queue, pass, dbUp>>

\* DELETE
ServerDelete(t, r) ==
    /\ store[t][r].present
    /\ store' = DeleteRow(store, t, r)
    /\ UNCHANGED <<queue, pass, dbUp>>

\* POST /conflicts/:syncId/resolve (routes/sync.ts 129-164): the route
\* authenticates the caller and passes syncId, resolution and mergedData to
\* resolveConflict; the caller's id is not passed on, so the request of
\* any user is the Resolve step of Next.
PostResolve(userId, syncId, resolution, mergedData) ==
    Resolve(syncId, resolution, mergedData)

\* ----------------------------------------------------------- the inputs
\* The (user, companyId) pairs of the POST /sync requests: the owner of the
\* bill operations, the owner of the payment operation, the latter's user
\* in the company of the former, and that user with an empty companyId
\* (the body is checked with z.string(), which accepts it).
Owners == {<<1, "c1">>, <<2, "c2">>, <<2, "c1">>, <<2, "">>}
ServerTables == {"bills"}

\* The authenticated users.
Users == {w[1] : w \in Owners}

\* POST /operations bodies of user 1 in company c1: an update of a bill with
\* every timestamp, a create with and without one, a delete (it reads no
\* data) and an update of a table that is no entity table; and an update
\* of a payment by another user in another company.  The data of an update
\* names the row it updates (data.id = recordId), so set(data) keeps the
\* key.
EnqueueInputs ==
    {<<1, "c1", "bills", r, "update", Data(r, ts, "cli")>> :
        r \in RecIds, ts \in TsOrNone}
    \cup {<<1, "c1", "bills", r, "create", Data(r, ts, "cli")>> :
        r \in RecIds, ts \in {NoTs, 0}}
    \cup {<<1, "c1", "bills", r, "delete", NoData>> : r \in RecIds}
    \cup {<<1, "c1", "ledgers", "r1", "update", Data("r1", 0, "cli")>>}
    \cup {<<2, "c2", "payments", "r1", "update", Data("r1", 0, "cli")>>}

\* POST /conflicts/:syncId/resolve bodies
ResolveInputs ==
    {<<rs, NoData>> : rs \in {"use_server", "use_client", "merge"}}
    \cup {<<"merge", Data(r, ts, "mrg")>> : r \in RecIds, ts \in TsOrNone}

\* No sync request is being served.
Idle == \A p \in PassIds : pass[p].pc = "idle"

\* The requests are served one after the other: a request starts when no
\* sync pass is in progress.
Next ==
    \/ Idle /\ \E e \in EnqueueInputs : Enqueue(e[1], e[2], e[3], e[4], e[5], e[6])
    \/ Idle /\ \E p \in PassIds, w \in Owners : StartSync(p, w[1], w[2])
    \/ \E p \in PassIds : SyncStep(p)
    \/ \E p \in PassIds : FinishSync(p)
    \/ \E p \in PassIds : Reply(p)
    \/ Idle /\ \E id \in 1..MaxOps, b \in ResolveInputs : Resolve(id, b[1], b[2])
    \/ Idle /\ \E t \in ServerTables, r \in RecIds, ts \in TsOrNone : ServerInsert(t, r, ts)
    \/ Idle /\ \E t \in ServerTables, r \in RecIds, now \in Ts : ServerUpdate(t, r, now)
    \/ Idle /\ \E t \in ServerTables, r \in RecIds : ServerDelete(t, r)

Spec == Init /\ [][Next]_vars

\* ------------------------------------------------------------- liveness
\* syncOperations is one async function: once it is called its loop runs an
\* iteration whenever one is left and returns when none is, so the loop
\* body and the return are weakly fair.
SpecLive ==
    /\ Init
    /\ [][Next]_vars
    /\ \A p \in PassIds : WF_vars(SyncStep(p)) /\ WF_vars(FinishSync(p))

\* ------------------------------------------------------- database faults
\* Every query of the service goes through the one connection `db`; while
\* the database is unreachable each of them rejects.
Crash ==
    /\ dbUp
    /\ dbUp' = FALSE
    /\ UNCHANGED <<queue, store, pass>>

Recover ==
    /\ ~dbUp
    /\ dbUp' = TRUE
    /\ UNCHANGED <<queue, store, pass>>

\* addSyncOperation, lines 182-185: the insert rejects, the catch throws
\* 'Failed to add sync operation' and the route replies with the error; no
\* row is written.
EnqueueFails(userId, companyId, tableName, recordId, operation, data) ==
    UNCHANGED <<queue, store, pass, dbUp>>

\* getPendingSyncOperations, lines 220-223: the select rejects, the catch
\* logs and returns []; syncOperations goes on with the empty list.
StartSyncFails(p, userId, companyId) ==
    /\ pass[p].pc = "idle"
    /\ pass' = [pass EXCEPT ![p] =
          [pc |-> "loop", ops |-> <<>>, idx |-> 1, result |-> NoResult]]
    /\ UNCHANGED <<queue, store, dbUp>>

\* resolveConflict, lines 591-594: the select rejects, the catch logs and
\* returns false.
ResolveFails(syncId, resolution, mergedData) ==
    UNCHANGED <<queue, store, pass, dbUp>>

\* The database goes down and comes back between requests; a request served
\* while it is down takes the failure path of its handler.
NextFault ==
    \/ dbUp /\ Next
    \/ Idle /\ Crash
    \/ Idle /\ Recover
    \/ ~dbUp /\ Idle /\ \E e \in EnqueueInputs :
          EnqueueFails(e[1], e[2], e[3], e[4], e[5], e[6])
    \/ ~dbUp /\ Idle /\ \E p \in PassIds, w \in Owners :
          StartSyncFails(p, w[1], w[2])
    \/ ~dbUp /\ \E p \in PassIds : FinishSync(p)
    \/ ~dbUp /\ \E p \in PassIds : Reply(p)
    \/ ~dbUp /\ Idle /\ \E id \in 1..MaxOps, b \in ResolveInputs :
          ResolveFails(id, b[1], b[2])

SpecFault == Init /\ [][NextFault]_vars

\* ----------------------------------------------------- lost status write
\* Faulty variant: the rejected write is not caught in updateSyncStatus; it
\* reaches the catch of the loop body, whose own status write rejects too,
\* and the pass ends in the outer catch with 'Sync failed'.
SyncStepStatusLost_escapes(p) ==
    /\ pass[p].pc = "loop"
    /\ pass[p].idx <= Len(pass[p].ops)
    /\ LET id == pass[p].ops[pass[p].idx]
           operation == queue[id]
       IN \E now \in Clock(operation) :
            LET syncSuccess == syncSingleOperation(store, operation, now)
            IN /\ store' = syncSuccess.store
               /\ pass' = [pass EXCEPT
                     ![p].idx = Len(pass[p].ops) + 1,
                     ![p].result.errors = Append(@, "Sync failed")]
               /\ UNCHANGED <<queue, dbUp>>

\* syncOperations, lines 238-258, when the update of offline_sync in
\* updateSyncStatus rejects: the entity operation has run, the catch of
\* updateSyncStatus (lines 521-523) logs the error and returns, the outcome
\* is counted and the loop goes on; the row keeps its status.
SyncStepStatusLost(p) ==
    /\ pass[p].pc = "loop"
    /\ pass[p].idx <= Len(pass[p].ops)
    /\ LET id == pass[p].ops[pass[p].idx]
           operation == queue[id]
       IN \E now \in Clock(operation) :
            LET syncSuccess == syncSingleOperation(store, operation, now)
            IN /\ store' = syncSuccess.store
               /\ pass' = [pass EXCEPT ![p].idx = @ + 1,
                                       ![p].result = Count(@, syncSuccess)]
               /\ UNCHANGED <<queue, dbUp>>

\* Any status write of a pass may be the one that is lost.
NextLost ==
    \/ Next
    \/ \E p \in PassIds : SyncStepStatusLost(p)

SpecLost == Init /\ [][NextLost]_vars

\* ------------------------------------------------- concurrent sync passes
\* Two POST /sync requests are served at the same time; each await of the
\* service is a point where the other request may run.
ConcPassIds == {1, 2}

InitConc ==
    /\ queue = <<>>
    /\ store = [t \in Tables |-> [r \in RecIds |-> NoRec]]
    /\ pass = [p \in ConcPassIds |-> IdlePass]
    /\ dbUp = TRUE

\* The next operation of pass p is an update whose select finds the row and
\* whose comparison (line 321) does not report a conflict.
SafeToApply(p) ==
    /\ pass[p].pc = "loop"
    /\ pass[p].idx <= Len(pass[p].ops)
    /\ LET op == queue[pass[p].ops[pass[p].idx]]
       IN /\ op.operation = "update"
          /\ op.tableName \in Tables
          /\ store[op.tableName][op.recordId].present
          /\ ~DateGt(DateOf(store[op.tableName][op.recordId].updatedAt),
                     DateOf(op.data.updatedAt))

\* syncBill, lines 307-328: the select and the comparison of an update that
\* passes them; the pass is then at the await of the update (line 330).
CheckStep(p) ==
    /\ SafeToApply(p)
    /\ pass' = [pass EXCEPT ![p].pc = "write"]
    /\ UNCHANGED <<queue, store, dbUp>>

\* Faulty variant: the comparison is made again when the row is written, as
\* one transaction around check and write would do.
WriteStep_rechecks(p) ==
    /\ pass[p].pc = "write"
    /\ LET id == pass[p].ops[pass[p].idx]
           syncSuccess == syncSingleOperation(store, queue[id], 0)
       IN /\ store' = syncSuccess.store
          /\ queue' = updateSyncStatus(queue, id, StatusOf(syncSuccess),
                                       syncSuccess.conflictData)
          /\ pass' = [pass EXCEPT ![p].pc = "loop",
                                  ![p].idx = @ + 1,
                                  ![p].result = Count(@, syncSuccess)]
          /\ UNCHANGED dbUp

\* syncBill, lines 330-333, and syncOperations, lines 242-244: the update
\* is executed on whatever the row is now (an update that matches no row
\* is no error), the handler returns success, the status is written and
\* the outcome counted.
WriteStep(p) ==
    /\ pass[p].pc = "write"
    /\ LET id == pass[p].ops[pass[p].idx]
           op == queue[id]
       IN /\ store' = IF store[op.tableName][op.recordId].present
                        THEN UpdateRow(store, op.tableName, op.recordId, op.data)
                        ELSE store
          /\ queue' = updateSyncStatus(queue, id, "synced", NoRec)
          /\ pass' = [pass EXCEPT
                ![p].pc = "loop",
                ![p].idx = @ + 1,
                ![p].result = Count(@, SyncRes(TRUE, FALSE, NoRec, "", store'))]
          /\ UNCHANGED dbUp

\* No sync request is being served.
IdleConc == \A p \in ConcPassIds : pass[p].pc = "idle"

\* POST /operations bodies of one user and company: updates of a bill with
\* every timestamp and its create.
EnqueueInputsConc ==
    {<<1, "c1", "bills", r, "update", Data(r, ts, "cli")>> :
        r \in RecIds, ts \in Ts}
    \cup {<<1, "c1", "bills", r, "create", Data(r, 0, "cli")>> : r \in RecIds}

\* Operations are queued and bills inserted while no pass runs; the passes
\* of the one user and company then interleave freely.  An update that
\* passes its check takes CheckStep and WriteStep, every other operation is
\* one SyncStep.
NextConc ==
    \/ IdleConc /\ \E e \in EnqueueInputsConc :
          Enqueue(e[1], e[2], e[3], e[4], e[5], e[6])
    \/ IdleConc /\ \E t \in ServerTables, r \in RecIds : ServerInsert(t, r, 0)
    \/ \E p \in ConcPassIds : StartSync(p, 1, "c1")
    \/ \E p \in ConcPassIds : ~SafeToApply(p) /\ SyncStep(p)
    \/ \E p \in ConcPassIds : CheckStep(p)
    \/ \E p \in ConcPassIds : WriteStep(p)
    \/ \E p \in ConcPassIds : FinishSync(p)
    \/ \E p \in ConcPassIds : Reply(p)

SpecConc == InitConc /\ [][NextConc]_vars

\* ------------------------------------------------------------ vocabulary
\* The operation a pass executes in its next loop iteration.
CurId(p) == pass[p].ops[pass[p].idx]

\* Pass p has just executed operation i.
JustRan(p, i) ==
    /\ pass[p].pc = "loop"
    /\ pass[p].idx > 1
    /\ pass[p].ops[pass[p].idx - 1] = i

\* op is an update of a row that exists in an entity table.
UpdateOfExisting(op) ==
    /\ op.operation = "update"
    /\ op.tableName \in Tables
    /\ store[op.tableName][op.recordId].present

\* Both timestamps are present and the server's is strictly greater.
ServerNewer(srv, data) ==
    srv.updatedAt # NoTs /\ data.updatedAt # NoTs /\ srv.updatedAt > data.updatedAt

\* Both timestamps are present and the server's is less than or equal.
ServerNotNewer(srv, data) ==
    srv.updatedAt # NoTs /\ data.updatedAt # NoTs /\ srv.updatedAt <= data.updatedAt

\* In the next state the row of op holds the payload.
Written(op, data) ==
    /\ store'[op.tableName][op.recordId].present
    /\ store'[op.tableName][op.recordId].val = data.val
    /\ store'[op.tableName][op.recordId].updatedAt = data.updatedAt

\* ------------------------------------------------------------------ C1
\* C1: an update executed by a sync pass whose row exists with a server
\* updatedAt strictly greater than data.updatedAt ends in status conflict,
\* its conflictData is the full server row, and no entity table changes.
C1_StaleUpdateIsConflict ==
    [][\A p \in PassIds : SyncStep(p) =>
         LET id == CurId(p)
             op == queue[id]
         IN (UpdateOfExisting(op)
               /\ ServerNewer(store[op.tableName][op.recordId], op.data))
            => /\ queue'[id].status = "conflict"
               /\ queue'[id].conflictData = store[op.tableName][op.recordId]
               /\ store' = store]_vars

C1_Witness ==
    \E p \in PassIds : \E i \in 1..Len(queue) :
        /\ JustRan(p, i)
        /\ UpdateOfExisting(queue[i])
        /\ queue[i].status = "conflict"
        /\ ServerNewer(queue[i].conflictData, queue[i].data)
        /\ store[queue[i].tableName][queue[i].recordId] = queue[i].conflictData

\* ------------------------------------------------------------------ C2
\* C2: an update executed by a sync pass whose row exists with a server
\* updatedAt less than or equal to data.updatedAt writes the payload to the
\* row and ends in status synced.
C2_FreshUpdateIsApplied ==
    [][\A p \in PassIds : SyncStep(p) =>
         LET id == CurId(p)
             op == queue[id]
         IN (UpdateOfExisting(op)
               /\ ServerNotNewer(store[op.tableName][op.recordId], op.data))
            => /\ queue'[id].status = "synced"
               /\ Written(op, op.data)]_vars

C2_Witness ==
    \E p \in PassIds : \E i \in 1..Len(queue) :
        /\ JustRan(p, i)
        /\ UpdateOfExisting(queue[i])
        /\ queue[i].status = "synced"
        /\ queue[i].data.updatedAt # NoTs
        /\ store[queue[i].tableName][queue[i].recordId]
             = Row(queue[i].data.updatedAt, "cli")

\* ------------------------------------------------------------------ C3
\* The operation a resolution re-drives and the payload it carries.
Redriven(id, resolution, mergedData) ==
    IF resolution = "merge"
      THEN [queue[id] EXCEPT !.operation = "update", !.data = mergedData]
      ELSE queue[id]

\* C3 as stated: every update whose data.updatedAt is less than or equal to
\* the server's updatedAt is applied and ends synced.
C3_Original ==
    [][\A p \in PassIds : SyncStep(p) =>
         LET id == CurId(p)
             op == queue[id]
             srv == store[op.tableName][op.recordId]
         IN (UpdateOfExisting(op)
               /\ srv.updatedAt # NoTs /\ op.data.updatedAt # NoTs
               /\ op.data.updatedAt <= srv.updatedAt)
            => /\ queue'[id].status = "synced"
               /\ Written(op, op.data)]_vars

\* C3 amended: every update of an existing row whose data.updatedAt is
\* greater than or equal to the server's updatedAt is applied and ends
\* synced, whether a sync pass executes it or a resolution re-drives it.
C3_NotOlderUpdateIsApplied ==
    [][/\ \A p \in PassIds : SyncStep(p) =>
            LET id == CurId(p)
                op == queue[id]
            IN (UpdateOfExisting(op)
                  /\ ServerNotNewer(store[op.tableName][op.recordId], op.data))
               => /\ queue'[id].status = "synced"
                  /\ Written(op, op.data)
       /\ Idle => \A id \in 1..Len(queue) :
            queue[id].status = "conflict" => \A b \in ResolveInputs :
              (/\ resolveReturn(queue, id, b[1], b[2])
               /\ b[1] # "use_server"
               /\ UpdateOfExisting(Redriven(id, b[1], b[2]))
               /\ ServerNotNewer(store[queue[id].tableName][queue[id].recordId],
                                 Redriven(id, b[1], b[2]).data)
               /\ Resolve(id, b[1], b[2]))
              => /\ queue'[id].status = "synced"
                 /\ Written(queue[id], Redriven(id, b[1], b[2]).data)]_vars

\* A resolution has applied the client's payload: the row carries it and
\* the only operation queued, once in conflict, is synced.
C3_Witness ==
    \E i \in 1..Len(queue) :
        /\ Len(queue) = 1
        /\ UpdateOfExisting(queue[i])
        /\ queue[i].status = "synced"
        /\ queue[i].conflictData.present
        /\ queue[i].data.updatedAt # NoTs
        /\ store[queue[i].tableName][queue[i].recordId]
             = Row(queue[i].data.updatedAt, "cli")

\* ------------------------------------------------------------------ C4
\* C4 as stated: every update for which data.updatedAt > server.updatedAt
\* is false ends in conflict with the server row as conflictData.
C4_Original ==
    [][\A p \in PassIds : SyncStep(p) =>
         LET id == CurId(p)
             op == queue[id]
             srv == store[op.tableName][op.recordId]
         IN (UpdateOfExisting(op)
               /\ srv.updatedAt # NoTs /\ op.data.updatedAt # NoTs
               /\ ~(op.data.updatedAt > srv.updatedAt))
            => /\ queue'[id].status = "conflict"
               /\ queue'[id].conflictData = srv]_vars

\* C4 amended: every update a sync pass executes for which
\* server.updatedAt > data.updatedAt ends in conflict with the full server
\* row as conflictData, and is counted in the result's conflicts.
C4_ServerNewerIsConflict ==
    [][\A p \in PassIds : SyncStep(p) =>
         LET id == CurId(p)
             op == queue[id]
         IN (UpdateOfExisting(op)
               /\ ServerNewer(store[op.tableName][op.recordId], op.data))
            => /\ queue'[id].status = "conflict"
               /\ queue'[id].conflictData = store[op.tableName][op.recordId]
               /\ pass'[p].result.conflicts = pass[p].result.conflicts + 1
               /\ pass'[p].result.synced = pass[p].result.synced
               /\ pass'[p].result.failed = pass[p].result.failed]_vars

C4_Witness ==
    \E p \in PassIds : \E i \in 1..Len(queue) :
        /\ JustRan(p, i)
        /\ queue[i].operation = "update"
        /\ queue[i].status = "conflict"
        /\ ServerNewer(queue[i].conflictData, queue[i].data)
        /\ pass[p].result.conflicts >= 1

\* ------------------------------------------------------------------ C5
\* C5 as stated: in every reachable state an operation has conflictData set
\* if and only if its status is conflict.
C5_Original ==
    \A i \in 1..Len(queue) :
        queue[i].conflictData.present <=> queue[i].status = "conflict"

\* ------------------------------------------------------------------ C6
\* C6 as stated: resolving a conflicted update with use_client writes the
\* operation's data whenever the row still exists, and the status becomes
\* synced.
C6_Original ==
    [][\A id \in 1..Len(queue) :
         (/\ queue[id].status = "conflict"
          /\ UpdateOfExisting(queue[id])
          /\ Resolve(id, "use_client", NoData))
         => /\ queue'[id].status = "synced"
            /\ store'[queue[id].tableName][queue[id].recordId].val
                 = queue[id].data.val]_vars

\* ------------------------------------------------------------------ C7
\* C7 as stated: resolving a conflicted operation with merge and mergedData
\* updates the row with mergedData whenever the row exists, however
\* mergedData.updatedAt compares with the server's, and the status becomes
\* synced.
C7_Original ==
    [][\A id \in 1..Len(queue) : \A b \in ResolveInputs :
         (/\ b[1] = "merge" /\ b[2] # NoData
          /\ queue[id].status = "conflict"
          /\ queue[id].tableName \in Tables
          /\ store[queue[id].tableName][queue[id].recordId].present
          /\ Resolve(id, "merge", b[2]))
         => /\ queue'[id].status = "synced"
            /\ store'[queue[id].tableName][queue[id].recordId].val = b[2].val]_vars

\* ------------------------------------------------------------------ C8
\* C8: a status changes only from pending to synced, failed or conflict, in
\* an iteration of a sync pass, or from conflict to synced or failed, in a
\* resolution; synced and failed never change and nothing returns to
\* pending.
C8_StatusMoves ==
    [][\A i \in 1..Len(queue) :
         queue'[i].status # queue[i].status =>
           \/ /\ queue[i].status = "pending"
              /\ queue'[i].status \in {"synced", "failed", "conflict"}
              /\ \E p \in PassIds : SyncStep(p) /\ CurId(p) = i
           \/ /\ queue[i].status = "conflict"
              /\ queue'[i].status \in {"synced", "failed"}
              /\ \E b \in ResolveInputs : Resolve(i, b[1], b[2])]_vars

\* Each move has happened: one operation went from conflict to failed in a
\* resolution, another from pending to synced in a pass.
C8_Witness ==
    \E i, j \in 1..Len(queue) :
        /\ queue[i].status = "failed" /\ queue[i].conflictData.present
        /\ queue[j].status = "synced" /\ ~queue[j].conflictData.present

\* ------------------------------------------------------------------ C9
\* C9: the result a sync pass returns has synced + failed + conflicts equal
\* to the number of pending operations the pass listed and executed.
C9_CountsAddUp ==
    \A p \in PassIds :
        pass[p].pc = "done" =>
            pass[p].result.synced + pass[p].result.failed
                + pass[p].result.conflicts = Len(pass[p].ops)

C9_Witness ==
    \E p \in PassIds :
        /\ pass[p].pc = "done"
        /\ Len(pass[p].ops) = 2
        /\ pass[p].result.conflicts = 1
        /\ pass[p].result.failed = 1

\* ----------------------------------------------------------------- C10
\* C10: the result a sync pass returns has success true exactly when failed
\* is 0, whatever conflicts and synced are.
C10_SuccessIffNoFailure ==
    \A p \in PassIds :
        pass[p].pc = "done" =>
            (pass[p].result.success <=> pass[p].result.failed = 0)

\* Returned results with success true and a conflict, and with success
\* false, both exist; this one has a conflict and a synced operation.
C10_Witness ==
    \E p \in PassIds :
        /\ pass[p].pc = "done"
        /\ pass[p].result.success
        /\ pass[p].result.conflicts = 1
        /\ pass[p].result.synced = 1

\* ----------------------------------------------------------------- C11
\* C11: resolve(opId, use_server) on an operation in conflict sets its
\* status to synced and leaves every entity table as it is.
C11_UseServerKeepsStore ==
    [][Idle => \A id \in 1..Len(queue) :
         (queue[id].status = "conflict" /\ Resolve(id, "use_server", NoData))
         => /\ resolveReturn(queue, id, "use_server", NoData)
            /\ queue'[id].status = "synced"
            /\ store' = store]_vars

\* The only operation queued was in conflict and is synced, and its row is
\* still the server row that caused the conflict: the client's change was
\* dropped.
C11_Witness ==
    /\ Len(queue) = 1
    /\ queue[1].status = "synced"
    /\ queue[1].conflictData.present
    /\ UpdateOfExisting(queue[1])
    /\ store[queue[1].tableName][queue[1].recordId] = queue[1].conflictData
    /\ ServerNewer(queue[1].conflictData, queue[1].data)

\* ----------------------------------------------------------------- C12
\* C12: resolve(opId, merge) without mergedData on an operation in conflict
\* returns false and changes neither the operation (status and
\* conflictData stay) nor an entity table.
C12_MergeNeedsData ==
    [][Idle => \A id \in 1..Len(queue) :
         (queue[id].status = "conflict" /\ Resolve(id, "merge", NoData))
         => /\ ~resolveReturn(queue, id, "merge", NoData)
            /\ queue'[id].status = "conflict"
            /\ queue'[id].conflictData = queue[id].conflictData
            /\ queue'[id].conflictData.present
            /\ store' = store]_vars

\* An operation is in conflict while no request is served: a merge without
\* mergedData is accepted in this state and leaves it as it is.
C12_Witness ==
    /\ Idle
    /\ \E id \in 1..Len(queue) :
         /\ queue[id].status = "conflict"
         /\ queue[id].conflictData.present
         /\ ~resolveReturn(queue, id, "merge", NoData)

\* ----------------------------------------------------------------- C13
\* C13: resolve with an id that names no operation, or an operation that is
\* pending, synced or failed, returns false and changes neither the queue
\* nor an entity table.
C13_ResolveOnlyConflicts ==
    [][Idle => \A id \in 1..MaxOps :
         (id \notin 1..Len(queue) \/ queue[id].status # "conflict")
         => \A b \in ResolveInputs :
              Resolve(id, b[1], b[2])
              => /\ ~resolveReturn(queue, id, b[1], b[2])
                 /\ queue' = queue
                 /\ store' = store]_vars

\* The states a second resolve, and a resolve of a missing id, start from:
\* operation 1 was in conflict and is resolved, and id 2 names no operation.
C13_Witness ==
    /\ Idle
    /\ Len(queue) = 1
    /\ queue[1].status \in {"synced", "failed"}
    /\ queue[1].conflictData.present
    /\ \A b \in ResolveInputs : /\ ~resolveReturn(queue, 1, b[1], b[2])
                                /\ ~resolveReturn(queue, 2, b[1], b[2])

\* ----------------------------------------------------------------- C14
\* C14: an update executed by a sync pass whose row does not exist is a
\* failure and no conflict: status failed, no conflictData stored, no row
\* created, result.failed incremented and one error entry appended.
C14_MissingRowIsFailure ==
    [][\A p \in PassIds : SyncStep(p) =>
         LET id == CurId(p)
             op == queue[id]
         IN (op.operation = "update" /\ op.tableName \in Tables
               /\ ~store[op.tableName][op.recordId].present)
            => /\ queue'[id].status = "failed"
               /\ queue'[id].conflictData = NoRec
               /\ store' = store
               /\ pass'[p].result.failed = pass[p].result.failed + 1
               /\ pass'[p].result.conflicts = pass[p].result.conflicts
               /\ Len(pass'[p].result.errors) = Len(pass[p].result.errors) + 1
               /\ pass'[p].result.errors[Len(pass'[p].result.errors)]
                    \in {"Bill not found", "Customer not found",
                         "Product not found", "Payment not found"}]_vars

\* A pass has just executed an update whose row is absent: the operation is
\* failed without a snapshot and the failure is counted with its message.
C14_Witness ==
    \E p \in PassIds, i \in 1..Len(queue) :
       /\ JustRan(p, i)
       /\ queue[i].operation = "update"
       /\ queue[i].tableName = "bills"
       /\ ~store["bills"][queue[i].recordId].present
       /\ queue[i].status = "failed"
       /\ queue[i].conflictData = NoRec
       /\ pass[p].result.failed = 1
       /\ pass[p].result.errors = <<"Bill not found">>

\* ----------------------------------------------------------------- C15
\* C15: a delete executed by a sync pass makes no conflict check and is
\* idempotent: it ends synced whatever the server row is, the row is absent
\* afterwards and nothing else changes; when the row was absent already the
\* entity tables are left as they are.
C15_DeleteIsIdempotent ==
    [][\A p \in PassIds : SyncStep(p) =>
         LET id == CurId(p)
             op == queue[id]
         IN (op.operation = "delete" /\ op.tableName \in Tables)
            => /\ queue'[id].status = "synced"
               /\ queue'[id].conflictData = NoRec
               /\ store' = [store EXCEPT ![op.tableName][op.recordId] = NoRec]
               /\ ~store[op.tableName][op.recordId].present => store' = store
               /\ pass'[p].result.synced = pass[p].result.synced + 1]_vars

\* One pass has executed two deletes of the same row, the second on the
\* row the first had removed; both are synced.
C15_Witness ==
    \E p \in PassIds :
       /\ JustRan(p, 2)
       /\ pass[p].ops = <<1, 2>>
       /\ \A i \in {1, 2} : /\ queue[i].operation = "delete"
                            /\ queue[i].tableName = "bills"
                            /\ queue[i].recordId = "r1"
                            /\ queue[i].status = "synced"
       /\ ~store["bills"]["r1"].present
       /\ pass[p].result.synced = 2

\* ----------------------------------------------------------------- C16
\* C16: a create executed by a sync pass never overwrites a row: every row
\* present before the step is unchanged after it, and a create whose key is
\* taken ends failed with the duplicate-key error.
C16_CreateNeverOverwrites ==
    [][\A p \in PassIds : SyncStep(p) =>
         LET id == CurId(p)
             op == queue[id]
         IN (op.operation = "create" /\ op.tableName \in Tables)
            => /\ \A t \in Tables, r \in RecIds :
                    store[t][r].present => store'[t][r] = store[t][r]
               /\ store[op.tableName][op.data.id].present
                    => /\ queue'[id].status = "failed"
                       /\ store' = store
                       /\ pass'[p].result.errors
                            = Append(pass[p].result.errors, "duplicate key")
               /\ ~store[op.tableName][op.data.id].present
                    => /\ queue'[id].status = "synced"
                       /\ store'[op.tableName][op.data.id].present
                       /\ store'[op.tableName][op.data.id].val = op.data.val]_vars

\* One pass has executed two creates of the same row: the first is synced,
\* the second failed on the key, and the row holds what the first stored.
C16_Witness ==
    \E p \in PassIds :
       /\ JustRan(p, 2)
       /\ pass[p].ops = <<1, 2>>
       /\ \A i \in {1, 2} : /\ queue[i].operation = "create"
                            /\ queue[i].tableName = "bills"
                            /\ queue[i].data.id = "r1"
       /\ queue[1].data.updatedAt = 0
       /\ queue[2].data.updatedAt = NoTs
       /\ queue[1].status = "synced"
       /\ queue[2].status = "failed"
       /\ pass[p].result.errors = <<"duplicate key">>
       /\ store["bills"]["r1"] = Row(0, "cli")

\* ----------------------------------------------------------------- C17
\* C17: an operation whose tableName has no handler fails as unsupported:
\* it is marked failed, one error entry is appended, no entity table
\* changes, and the pass goes on to the next operation it listed.
C17_UnsupportedTableFails ==
    [][\A p \in PassIds : SyncStep(p) =>
         LET id == CurId(p)
             op == queue[id]
         IN op.tableName \notin Tables
            => /\ queue'[id].status = "failed"
               /\ queue'[id].conflictData = NoRec
               /\ store' = store
               /\ pass'[p].result.failed = pass[p].result.failed + 1
               /\ pass'[p].result.errors
                    = Append(pass[p].result.errors, "Unsupported table")
               /\ pass'[p].pc = "loop"
               /\ pass'[p].ops = pass[p].ops
               /\ pass'[p].idx = pass[p].idx + 1]_vars

\* One pass has failed its first operation on an unsupported table and has
\* then executed and synced its second operation.
C17_Witness ==
    \E p \in PassIds :
       /\ JustRan(p, 2)
       /\ pass[p].ops = <<1, 2>>
       /\ queue[1].tableName = "ledgers"
       /\ queue[1].status = "failed"
       /\ queue[2].tableName = "bills"
       /\ queue[2].status = "synced"
       /\ pass[p].result.errors = <<"Unsupported table">>
       /\ pass[p].result.synced = 1

\* ----------------------------------------------------------------- C18
\* C18: every sync pass terminates with a result, and each operation the
\* pass listed makes exactly one status transition during it, out of
\* pending: the operations before the loop index have left pending, those
\* from the index on are still pending, one loop iteration changes the
\* status of its operation only and always moves on to the next one,
\* whatever the outcome.
C18_PassCompletes ==
    /\ \A p \in PassIds :
         (pass[p].pc = "loop")
           ~> (/\ pass[p].pc = "done"
               /\ \A k \in 1..Len(pass[p].ops) :
                    queue[pass[p].ops[k]].status # "pending"
               /\ pass[p].result.synced + pass[p].result.failed
                    + pass[p].result.conflicts = Len(pass[p].ops))
    /\ [](\A p \in PassIds : pass[p].pc = "loop" =>
            \A k \in 1..Len(pass[p].ops) :
               (queue[pass[p].ops[k]].status = "pending") <=> (k >= pass[p].idx))
    /\ [][\A p \in PassIds : SyncStep(p) =>
            /\ queue[CurId(p)].status = "pending"
            /\ queue'[CurId(p)].status \in {"synced", "failed", "conflict"}
            /\ \A j \in 1..Len(queue) :
                 j # CurId(p) => queue'[j] = queue[j]
            /\ pass'[p].idx = pass[p].idx + 1
            /\ pass'[p].ops = pass[p].ops]_vars

\* A pass has returned after its first operation failed and its second one
\* was executed and synced.
C18_Witness ==
    \E p \in PassIds :
       /\ pass[p].pc = "done"
       /\ pass[p].ops = <<1, 2>>
       /\ queue[1].status = "failed"
       /\ queue[2].status = "synced"
       /\ pass[p].result.failed = 1
       /\ pass[p].result.synced = 1
       /\ ~pass[p].result.success

\* ----------------------------------------------------------------- C19
\* C19: a failure of the database is propagated to the caller: an enqueue
\* that fails creates no operation, and a sync pass that could not read the
\* queue returns success = false with an error entry.  (The database stays
\* down for the whole request, so a pass that returns while it is down is
\* a pass whose listing failed.)
C19_Original ==
    [][/\ \A e \in EnqueueInputs :
            (~dbUp /\ Idle /\ EnqueueFails(e[1], e[2], e[3], e[4], e[5], e[6]))
            => queue' = queue
       /\ \A p \in PassIds :
            (~dbUp /\ FinishSync(p))
            => /\ ~pass'[p].result.success
               /\ pass'[p].result.errors # <<>>]_vars

\* ----------------------------------------------------------------- C20
\* C20: enqueue appends exactly one operation, under an id no operation
\* had, with the fields of the request, status pending and no conflictData;
\* it does so whether or not the row exists, and changes neither an entity
\* table nor an operation queued before.
C20_EnqueueAppendsOne ==
    [][Idle => \A e \in EnqueueInputs :
         Enqueue(e[1], e[2], e[3], e[4], e[5], e[6])
         => /\ Len(queue') = Len(queue) + 1
            /\ \A i \in 1..Len(queue) : queue'[i] = queue[i]
            /\ LET new == queue'[Len(queue) + 1]
               IN /\ new.status = "pending"
                  /\ new.conflictData = NoRec
                  /\ <<new.userId, new.companyId, new.tableName,
                       new.recordId, new.operation, new.data>> = e
            /\ store' = store]_vars

\* A second operation was queued behind a failed one, for a row that does
\* not exist: it is pending, and the first operation kept its status.
C20_Witness ==
    /\ Idle
    /\ Len(queue) = 2
    /\ queue[1].status = "failed"
    /\ queue[2].status = "pending"
    /\ queue[2].conflictData = NoRec
    /\ queue[2].operation = "update"
    /\ queue[2].tableName = "bills"
    /\ ~store["bills"][queue[2].recordId].present

\* ----------------------------------------------------------------- C21
\* C21: a sync pass for (user, company) lists exactly the operations that
\* are pending and belong to that user and that company, oldest first; it
\* executes them one at a time in that order, writing the status of each
\* before the next, and changes no operation of another user or company.
C21_Original ==
    /\ [][Idle => \A p \in PassIds, w \in Owners :
            StartSync(p, w[1], w[2])
            => /\ \A i \in 1..Len(queue) :
                    (\E k \in 1..Len(pass'[p].ops) : pass'[p].ops[k] = i)
                    <=> (/\ queue[i].userId = w[1]
                         /\ queue[i].companyId = w[2]
                         /\ queue[i].status = "pending")
               /\ \A k, l \in 1..Len(pass'[p].ops) :
                    k < l => pass'[p].ops[k] < pass'[p].ops[l]]_vars
    /\ [][\A p \in PassIds : SyncStep(p) =>
            /\ queue'[CurId(p)].status # "pending"
            /\ pass'[p].idx = pass[p].idx + 1
            /\ \A j \in 1..Len(queue) :
                 (queue[j].userId # queue[CurId(p)].userId
                    \/ queue[j].companyId # queue[CurId(p)].companyId)
                 => queue'[j] = queue[j]]_vars

\* ----------------------------------------------------------------- C22
\* C22: a sync pass never executes an operation again: it lists pending
\* operations only, each loop iteration executes an operation that is still
\* pending, and it leaves every failed, synced or conflict operation as it
\* is.
C22_NoRetry ==
    /\ [][Idle => \A p \in PassIds, w \in Owners :
            StartSync(p, w[1], w[2])
            => \A k \in 1..Len(pass'[p].ops) :
                  queue[pass'[p].ops[k]].status = "pending"]_vars
    /\ [][\A p \in PassIds : SyncStep(p) =>
            /\ queue[CurId(p)].status = "pending"
            /\ \A j \in 1..Len(queue) :
                 queue[j].status # "pending" => queue'[j] = queue[j]]_vars

\* Operation 1 failed in an earlier pass; a later pass of the same user and
\* company listed and executed operation 2 only, and operation 1 is still
\* failed.
C22_Witness ==
    \E p \in PassIds :
       /\ JustRan(p, 2)
       /\ pass[p].ops = <<2>>
       /\ queue[1].status = "failed"
       /\ queue[1].userId = queue[2].userId
       /\ queue[1].companyId = queue[2].companyId
       /\ queue[2].status = "synced"

\* ----------------------------------------------------------------- C23
\* C23: when the write of an operation's outcome to the queue fails, the
\* failure is swallowed: the operation keeps its status pending, the pass
\* counts the outcome in its result all the same and goes on to the next
\* operation.
C23_LostStatusIsSwallowed ==
    [][\A p \in PassIds : SyncStepStatusLost(p) =>
         /\ queue' = queue
         /\ queue'[CurId(p)].status = "pending"
         /\ pass'[p].result.synced + pass'[p].result.failed
              + pass'[p].result.conflicts
              = pass[p].result.synced + pass[p].result.failed
                  + pass[p].result.conflicts + 1
         /\ pass'[p].pc = "loop"
         /\ pass'[p].ops = pass[p].ops
         /\ pass'[p].idx = pass[p].idx + 1]_vars

\* A pass has returned synced = 1 for the one operation it listed, the
\* created row is in the table, and the operation is still pending in the
\* queue: result and queue disagree.
C23_Witness ==
    \E p \in PassIds :
       /\ pass[p].pc = "done"
       /\ pass[p].ops = <<1>>
       /\ pass[p].result.synced = 1
       /\ pass[p].result.success
       /\ queue[1].operation = "create"
       /\ queue[1].status = "pending"
       /\ store["bills"]["r1"] = Row(0, "cli")

\* ----------------------------------------------------------------- C24
\* C24: nothing ties the conflict check of an update to its write: a pass
\* that has passed the check writes its payload onto the row as it is at
\* the time of the write, whatever another pass has written since, and
\* marks the operation synced.
C24_WriteIgnoresLaterWrites ==
    [][\A p \in ConcPassIds : WriteStep(p) =>
         LET id == CurId(p)
             op == queue[id]
         IN /\ queue'[id].status = "synced"
            /\ store[op.tableName][op.recordId].present
                 => /\ store'[op.tableName][op.recordId].present
                    /\ store'[op.tableName][op.recordId].val = op.data.val
                    /\ op.data.updatedAt # NoTs
                         => store'[op.tableName][op.recordId].updatedAt
                              = op.data.updatedAt]_vars

\* Two passes listed the same two updates of one bill.  One pass checked
\* the older update, the other pass then applied both updates, and the first
\* pass wrote the older payload over the newer one: both are synced and the
\* row carries the older timestamp.
C24_Witness ==
    \E p, q \in ConcPassIds :
       /\ p # q
       /\ pass[p].ops = <<1, 2>>
       /\ pass[q].ops = <<1, 2>>
       /\ JustRan(p, 1)
       /\ pass[q].idx = 3
       /\ \A i \in {1, 2} : /\ queue[i].operation = "update"
                            /\ queue[i].tableName = "bills"
                            /\ queue[i].recordId = "r1"
                            /\ queue[i].status = "synced"
       /\ queue[1].data.updatedAt = 0
       /\ queue[2].data.updatedAt = 1
       /\ pass[q].result.synced = 2
       /\ pass[p].result.synced = 1
       /\ store["bills"]["r1"].updatedAt = 0

\* ----------------------------------------------------------------- C25
\* C25: also with two concurrent passes that listed the same operations, an
\* operation that is synced stays synced, and a pass that executes an
\* operation another pass has already synced does not apply it again.
C25_Original ==
    /\ [][\A id \in 1..Len(queue) :
            queue[id].status = "synced" => queue'[id].status = "synced"]_vars
    /\ [][\A p \in ConcPassIds :
            (pass[p].pc \in {"loop", "write"}
               /\ pass[p].idx <= Len(pass[p].ops)
               /\ queue[CurId(p)].status = "synced"
               /\ (SyncStep(p) \/ WriteStep(p)))
            => store' = store]_vars

\* ----------------------------------------------------------------- C26
\* C26: a resolve request acts only on operations of its caller: when the
\* operation belongs to another user, neither the queue nor an entity
\* table changes.
C26_Original ==
    [][Idle => \A id \in 1..Len(queue) :
         queue[id].status = "conflict"
         => \A u \in Users :
              queue[id].userId # u
              => \A b \in ResolveInputs :
                   PostResolve(u, id, b[1], b[2])
                   => queue' = queue /\ store' = store]_vars

\* ----------------------------------------------------------------- C27
\* C27: with calls served one after the other and every status write
\* succeeding, an operation changes the entity tables at most once: a step
\* made for an operation changes a table only when it takes the operation
\* from pending or conflict to synced, an attempt classified as conflict
\* changes nothing, and synced and failed are final.
C27_AppliedAtMostOnce ==
    /\ [][\A p \in PassIds : SyncStep(p) =>
            /\ store' # store
                 => /\ queue[CurId(p)].status = "pending"
                    /\ queue'[CurId(p)].status = "synced"
            /\ queue'[CurId(p)].status = "conflict" => store' = store]_vars
    /\ [][(Idle /\ store' # store) => \A id \in 1..Len(queue) :
            \A b \in ResolveInputs :
               Resolve(id, b[1], b[2])
               => /\ queue[id].status = "conflict"
                  /\ queue'[id].status = "synced"]_vars
    /\ [][\A id \in 1..Len(queue) :
            queue[id].status \in {"synced", "failed"}
            => queue'[id].status = queue[id].status]_vars

\* The only operation queued was classified as a conflict, which changed
\* nothing, and was then applied once by a merge: it is synced and its row
\* holds the merged payload.
C27_Witness ==
    /\ Idle
    /\ Len(queue) = 1
    /\ queue[1].status = "synced"
    /\ queue[1].conflictData.present
    /\ queue[1].tableName = "bills"
    /\ store["bills"][queue[1].recordId].present
    /\ store["bills"][queue[1].recordId].val = "mrg"

\* ----------------------------------------------------------------- C28
\* C28: an update executed by a sync pass whose row exists is no conflict
\* when the payload or the server row has no updatedAt: the payload is
\* applied (the row keeps its updatedAt when the payload has none) and the
\* operation is synced.
C28_MissingTimestampNeverConflicts ==
    [][\A p \in PassIds : SyncStep(p) =>
         LET id == CurId(p)
             op == queue[id]
             srv == store[op.tableName][op.recordId]
         IN (UpdateOfExisting(op)
               /\ (op.data.updatedAt = NoTs \/ srv.updatedAt = NoTs))
            => /\ queue'[id].status = "synced"
               /\ queue'[id].conflictData = NoRec
               /\ pass'[p].result.conflicts = pass[p].result.conflicts
               /\ store'[op.tableName][op.recordId].present
               /\ store'[op.tableName][op.recordId].val = op.data.val
               /\ store'[op.tableName][op.recordId].updatedAt
                    = IF op.data.updatedAt = NoTs THEN srv.updatedAt
                                                  ELSE op.data.updatedAt]_vars

\* A pass has just applied an update without updatedAt to a row the server
\* had stamped 1: the operation is synced, the row holds the payload and
\* still carries the server's timestamp.
C28_Witness ==
    \E p \in PassIds, i \in 1..Len(queue) :
       /\ JustRan(p, i)
       /\ queue[i].operation = "update"
       /\ queue[i].tableName = "bills"
       /\ queue[i].data.updatedAt = NoTs
       /\ queue[i].status = "synced"
       /\ queue[i].conflictData = NoRec
       /\ store["bills"][queue[i].recordId] = Row(1, "cli")

\* ----------------------------------------------------------------- C29
\* C29: in every reachable state an operation in status conflict is an
\* update.
C29_ConflictIsUpdate ==
    \A id \in 1..Len(queue) :
       queue[id].status = "conflict" => queue[id].operation = "update"

\* A create that met a taken key is failed while an update of the same row
\* is in conflict.
C29_Witness ==
    /\ Len(queue) = 2
    /\ queue[1].operation = "create"
    /\ queue[1].status = "failed"
    /\ queue[2].operation = "update"
    /\ queue[2].status = "conflict"
    /\ queue[2].recordId = queue[1].recordId

\* ----------------------------------------------------------------- C30
\* C30: in the result of a sync pass the number of error entries equals
\* failed, at every point of the pass and in the result returned.
C30_ErrorsMatchFailed ==
    \A p \in PassIds : Len(pass[p].result.errors) = pass[p].result.failed

\* A pass has returned one failure and one conflict with one error entry.
C30_Witness ==
    \E p \in PassIds :
       /\ pass[p].pc = "done"
       /\ pass[p].result.failed = 1
       /\ pass[p].result.conflicts = 1
       /\ pass[p].result.synced = 0
       /\ Len(pass[p].result.errors) = 1

====
